---- MODULE Spec2Model ----
(***************************************************************************)
(* Model of the DocumentDB data-access layer: the two server-side stored   *)
(* procedures (update, bulkDelete) and the collection they act on.         *)
(*                                                                         *)
(* The source holds two texts of the update procedure:                     *)
(*   updateFunc              stored-procedures/update.ts                   *)
(*   updateProc.serverScript stored-procedures/BulkDeleteStoredProcedure.ts*)
(*                           (lines 65-235)                                *)
(* Both are modelled; an invocation records which text it runs (impl).     *)
(***************************************************************************)
EXTENDS Integers, Sequences, FiniteSets, TLC

\* ------------------------------------------------------------------ bounds
MaxDocs == 2
MaxEntries == 2
MaxPages == 1

\* ------------------------------------------------------------------ values
\* A JSON value of a document field: absent (undefined), a scalar or an array.
\* All three share one shape so that any two values can be compared.
Absent == [k |-> "absent", v |-> <<>>]
Scalar(x) == [k |-> "scalar", v |-> <<x>>]
Arr(s) == [k |-> "array", v |-> s]

\* Array.isArray(value)
IsArray(val) == val.k = "array"

\* The element JavaScript stores for `undefined` (update.$push[f] of a missing key).
Undefined == "undefined"

\* ------------------------------------------------------------------ documents
LinkNames == <<"L1", "L2", "L3", "L4">>
IdNames == <<"1", "2", "3", "4">>
EtagNames == <<"e1", "e2", "e3", "e4", "e5", "e6", "e7", "e8", "e9", "e10">>

Links == {LinkNames[i] : i \in 1..MaxDocs}
LinkSeq == [i \in 1..MaxDocs |-> LinkNames[i]]
Fields == {"tags", "text"}
SysFields == {"id", "_self", "_etag"}
DocFields == SysFields \cup Fields

\* the id that only an empty/undefined argument has (falsy in JavaScript)
NoId == ""
Ids == {IdNames[i] : i \in 1..MaxDocs}

NullDoc == [f \in DocFields |-> Absent]
NewDoc(i, tags, etag) ==
    [f \in DocFields |->
        CASE f = "id" -> Scalar(IdNames[i])
          [] f = "_self" -> Scalar(LinkNames[i])
          [] f = "_etag" -> Scalar(etag)
          [] f = "tags" -> tags
          [] OTHER -> Scalar("t")]

\* a document without its version token (the store issues a new one on every write)
NoEtag(d) == [d EXCEPT !["_etag"] = Absent]

\* ------------------------------------------------------------------ update commands
\* One operator group ($set, $pop, $push, $unshift): absent, or the entries of
\* the JSON object in key order (Object.keys order), with distinct fields.
NoGroup == [present |-> FALSE, es |-> <<>>]
Group(es) == [present |-> TRUE, es |-> es]

SetVals == {Scalar("x"), Arr(<<"a", "b">>)}
Deltas == {-1, 0, 1}
PushVals == {"c"}
UnshiftVals == {"z"}

Entries(P) == [f : Fields, v : P]
EntrySeqs(P) ==
    {s \in UNION {[1..n -> Entries(P)] : n \in 1..Cardinality(Fields)} :
        \A i, j \in DOMAIN s : i # j => s[i].f # s[j].f}
Groups(P) == {NoGroup} \cup {Group(s) : s \in EntrySeqs(P)}

NumEntries(c) == Len(c.set.es) + Len(c.pop.es) + Len(c.push.es) + Len(c.unshift.es)
AllCmds == [set : Groups(SetVals), pop : Groups(Deltas),
            push : Groups(PushVals), unshift : Groups(UnshiftVals)]
Cmds == {c \in AllCmds : NumEntries(c) <= MaxEntries}
EmptyCmds == [set |-> NoGroup, pop |-> NoGroup, push |-> NoGroup, unshift |-> NoGroup]

GroupFields(g) == {g.es[i].f : i \in DOMAIN g.es}
\* update.$x[f]; Undefined when the group has no such key
GroupVal(g, f) ==
    IF f \in GroupFields(g)
    THEN (CHOOSE e \in {g.es[i] : i \in DOMAIN g.es} : e.f = f).v
    ELSE Undefined

\* ------------------------------------------------------------------ operators
\* The result of an operator: the mutated document, or the error it threw.
Ok(d) == [err |-> "none", doc |-> d]
Threw(e) == [err |-> e, doc |-> NullDoc]

\* a $set that merges an array into the array the field holds
RECURSIVE setLoop_Concat(_, _, _)
setLoop_Concat(document, es, i) ==
    IF i > Len(es) THEN document
    ELSE IF IsArray(document[es[i].f]) /\ IsArray(es[i].v)
         THEN setLoop_Concat([document EXCEPT ![es[i].f] = Arr(@.v \o es[i].v.v)], es, i + 1)
         ELSE setLoop_Concat([document EXCEPT ![es[i].f] = es[i].v], es, i + 1)

\* update.ts 85-95 / BulkDeleteStoredProcedure.ts 149-159
RECURSIVE setLoop(_, _, _)
setLoop(document, es, i) ==
    IF i > Len(es) THEN document
    ELSE setLoop([document EXCEPT ![es[i].f] = es[i].v], es, i + 1)
set(document, update) ==
    IF update.set.present THEN Ok(setLoop(document, update.set.es, 1)) ELSE Ok(document)

\* Array.prototype.pop / shift / push / unshift on a sequence
JsPop(s) == IF Len(s) = 0 THEN s ELSE SubSeq(s, 1, Len(s) - 1)
JsShift(s) == IF Len(s) = 0 THEN s ELSE Tail(s)
\* a push that leaves out a value the array already ends with
JsPush_Unique(s, x) == IF Len(s) > 0 /\ s[Len(s)] = x THEN s ELSE Append(s, x)
JsPush(s, x) == Append(s, x)
JsUnshift(s, x) == <<x>> \o s

\* a $pop that takes an empty array for a bad parameter
RECURSIVE popFuncLoop_NonEmpty(_, _, _)
popFuncLoop_NonEmpty(document, es, i) ==
    IF i > Len(es) THEN Ok(document)
    ELSE IF ~IsArray(document[es[i].f]) \/ document[es[i].f].v = <<>> THEN Threw("operator")
    ELSE popFuncLoop_NonEmpty([document EXCEPT ![es[i].f] = Arr(JsPop(@.v))], es, i + 1)

\* update.ts 101-118: every delta removes the last element
RECURSIVE popFuncLoop(_, _, _)
popFuncLoop(document, es, i) ==
    IF i > Len(es) THEN Ok(document)
    ELSE IF ~IsArray(document[es[i].f]) THEN Threw("operator")
    ELSE popFuncLoop([document EXCEPT ![es[i].f] = Arr(JsPop(@.v))], es, i + 1)
popFunc(document, update) ==
    IF update.pop.present THEN popFuncLoop(document, update.pop.es, 1) ELSE Ok(document)

\* BulkDeleteStoredProcedure.ts 165-185: a negative delta removes the first element
RECURSIVE popProcLoop(_, _, _)
popProcLoop(document, es, i) ==
    IF i > Len(es) THEN Ok(document)
    ELSE IF ~IsArray(document[es[i].f]) THEN Threw("operator")
    ELSE IF es[i].v < 0
         THEN popProcLoop([document EXCEPT ![es[i].f] = Arr(JsShift(@.v))], es, i + 1)
         ELSE popProcLoop([document EXCEPT ![es[i].f] = Arr(JsPop(@.v))], es, i + 1)
popProc(document, update) ==
    IF update.pop.present THEN popProcLoop(document, update.pop.es, 1) ELSE Ok(document)

\* update.ts 125-142 / BulkDeleteStoredProcedure.ts 192-209
RECURSIVE pushLoop(_, _, _)
pushLoop(document, es, i) ==
    IF i > Len(es) THEN Ok(document)
    ELSE IF ~IsArray(document[es[i].f]) THEN Threw("operator")
    ELSE pushLoop([document EXCEPT ![es[i].f] = Arr(JsPush(@.v, es[i].v))], es, i + 1)
push(document, update) ==
    IF update.push.present THEN pushLoop(document, update.push.es, 1) ELSE Ok(document)

\* update.ts 149-166: prepends update.$unshift[field]
RECURSIVE unshiftFuncLoop(_, _, _)
unshiftFuncLoop(document, es, i) ==
    IF i > Len(es) THEN Ok(document)
    ELSE IF ~IsArray(document[es[i].f]) THEN Threw("operator")
    ELSE unshiftFuncLoop([document EXCEPT ![es[i].f] = Arr(JsUnshift(@.v, es[i].v))],
                         es, i + 1)
unshiftFunc(document, update) ==
    IF update.unshift.present THEN unshiftFuncLoop(document, update.unshift.es, 1)
    ELSE Ok(document)

\* BulkDeleteStoredProcedure.ts 216-233: prepends update.$push[field]; reading a
\* key of the undefined update.$push throws a TypeError
RECURSIVE unshiftProcLoop(_, _, _, _)
unshiftProcLoop(document, update, es, i) ==
    IF i > Len(es) THEN Ok(document)
    ELSE IF ~IsArray(document[es[i].f]) THEN Threw("operator")
    ELSE IF ~update.push.present THEN Threw("typeerror")
    ELSE unshiftProcLoop(
            [document EXCEPT ![es[i].f] = Arr(JsUnshift(@.v, GroupVal(update.push, es[i].f)))],
            update, es, i + 1)
unshiftProc(document, update) ==
    IF update.unshift.present THEN unshiftProcLoop(document, update, update.unshift.es, 1)
    ELSE Ok(document)

\* The four operator calls of tryUpdate, in the order of the code; the first
\* operator that throws ends the sequence.
Then(r, op(_)) == IF r.err # "none" THEN r ELSE op(r.doc)

\* update.ts 61-65
ApplyFunc(document, update) ==
    LET s == set(document, update)
        p == Then(s, LAMBDA d : popFunc(d, update))
        q == Then(p, LAMBDA d : push(d, update))
    IN  Then(q, LAMBDA d : unshiftFunc(d, update))

\* BulkDeleteStoredProcedure.ts 125-129
ApplyProc(document, update) ==
    LET s == set(document, update)
        p == Then(s, LAMBDA d : popProc(d, update))
        q == Then(p, LAMBDA d : push(d, update))
    IN  Then(q, LAMBDA d : unshiftProc(d, update))

Impls == {"updateFunc", "updateProc"}
ApplyOperators(impl, document, update) ==
    IF impl = "updateFunc" THEN ApplyFunc(document, update) ELSE ApplyProc(document, update)

\* ------------------------------------------------------------------ state
VARIABLES
    store,      \* the collection: link -> [present, doc]
    etagCtr,    \* number of version tokens the store has issued
    inv,        \* the stored-procedure invocations
    ext,        \* writes of other clients so far (at most one per behaviour)
    store0,     \* the collection when the behaviour started
    repo        \* the repository object, its operations, and what exists on the server

vars == <<store, etagCtr, inv, ext, store0, repo>>

Procs == {1, 2}

NoSlot == [present |-> FALSE, doc |-> NullDoc]
InitTags == {Absent, Arr(<<"a", "b">>)}
\* the documents P, each with the same tags value
MkStore(P, tags) ==
    [l \in Links |->
        LET i == CHOOSE j \in 1..MaxDocs : LinkNames[j] = l
        IN  IF l \in P THEN [present |-> TRUE, doc |-> NewDoc(i, tags, EtagNames[i])]
            ELSE NoSlot]
\* a collection of n documents, n = 0 .. MaxDocs
InitStores == {MkStore({LinkNames[i] : i \in 1..n}, t) : n \in 0..MaxDocs, t \in InitTags}

IdleInv ==
    [kind |-> "none", impl |-> "none", id |-> NoId, hasCmds |-> FALSE, cmds |-> EmptyCmds,
     pc |-> "idle", outcome |-> "none", pages |-> 0,
     hasRead |-> FALSE, read |-> NullDoc, document |-> NullDoc, etag |-> Absent,
     hasBody |-> FALSE, body |-> NullDoc,
     deleted |-> 0, queue |-> <<>>, bodyDeleted |-> 0,
     nQueries |-> 0, nReplaces |-> 0, nDeletes |-> 0, nWrites |-> 0,
     wrote |-> "", replaced |-> NullDoc, fault |-> FALSE,
     refused |-> "", pageLen |-> -1, lastCont |-> FALSE,
     page |-> <<>>, order |-> <<>>, nReads |-> 0, erred |-> FALSE]

\* The four references BaseCRUDRepository caches, in the order
\* initDatabaseCollectionAndStoredProcedures obtains them.
Resources == <<"database", "collection", "updateProcedure", "bulkDeleteProcedure">>
ResourceNames == {Resources[i] : i \in DOMAIN Resources}

\* a repository operation that has not been called
IdleOp ==
    [kind |-> "none", argType |-> "none", pc |-> "idle", step |-> 0,
     caught |-> "none", error |-> "none", docs |-> {}, nLookups |-> 0,
     unobserved |-> "none"]

\* a new repository object (BaseCRUDRepository.ts 68-72: no reference is cached)
\* on an account where everything has been provisioned
IdleRepo ==
    [cached |-> [x \in ResourceNames |-> FALSE],
     exists |-> [x \in ResourceNames |-> TRUE],
     nCreated |-> [x \in ResourceNames |-> 0],
     nCreateCalls |-> [x \in ResourceNames |-> 0],
     lateCall |-> FALSE,
     ops |-> [o \in Procs |-> IdleOp]]

Init ==
    /\ store \in InitStores
    /\ store0 = store
    /\ etagCtr = MaxDocs
    /\ inv = [p \in Procs |-> IdleInv]
    /\ ext = 0
    /\ repo = IdleRepo

\* ------------------------------------------------------------------ the store
\* a query that leaves out the id filter
Matching_AnyDoc(id) == SelectSeq(LinkSeq, LAMBDA l : store[l].present)

\* the links of the documents a query by id returns, in collection order
Matching(id) ==
    SelectSeq(LinkSeq, LAMBDA l : store[l].present /\ store[l].doc["id"] = Scalar(id))
\* the links of all documents, in collection order
AllDocs == SelectSeq(LinkSeq, LAMBDA l : store[l].present)

\* the link a _self value names, "" when it names no stored document
Resolve(self) ==
    IF self.k = "scalar" /\ self.v[1] \in Links /\ store[self.v[1]].present
    THEN self.v[1] ELSE ""

\* replaceDocument(link, body, {etag}) as the store decides it: 404 for a link
\* that names nothing, 412 when a version token is given and differs
ReplaceResult(self, etag) ==
    LET l == Resolve(self)
    IN  IF l = "" THEN "storeerr"
        ELSE IF etag # Absent /\ store[l].doc["_etag"] # etag THEN "conflict"
        ELSE "ok"
\* the document the store keeps for an accepted replace: the body under the
\* store's own link and a new version token
Stored(l, body) ==
    [body EXCEPT !["_self"] = Scalar(l), !["_etag"] = Scalar(EtagNames[etagCtr + 1])]

\* the store refuses (409) a body whose id another document of the collection has
IdTaken(l, body) ==
    \E x \in Links \ {l} : store[x].present /\ store[x].doc["id"] = body["id"]

\* What the store may answer: with faults, a call may be refused (isAccepted
\* false) and a callback may carry an error; without, every call is accepted and
\* the only errors are those the store's rules give (404, 412).
Accepts(faults) == IF faults THEN BOOLEAN ELSE {TRUE}
Errs(faults) == IF faults THEN BOOLEAN ELSE {FALSE}

\* ------------------------------------------------------------------ update
Finish(r, outcome) == [r EXCEPT !.pc = "done", !.outcome = outcome]

\* a query call that answers a refusal with an empty success
tryQueryAndUpdate_NoThrow(r, accepted) ==
    IF accepted
    THEN [r EXCEPT !.pc = "query", !.nQueries = @ + 1]
    ELSE Finish([r EXCEPT !.nQueries = @ + 1, !.fault = TRUE, !.refused = "query"], "ok")

\* update.ts 27-51 / BulkDeleteStoredProcedure.ts 86-115: the queryDocuments call
\* and the isAccepted test after it
tryQueryAndUpdate(r, accepted) ==
    IF accepted
    THEN [r EXCEPT !.pc = "query", !.nQueries = @ + 1]
    ELSE Finish([r EXCEPT !.nQueries = @ + 1, !.fault = TRUE, !.refused = "query"],
                "timeout")

\* tryUpdate with requestOptions that carry no version token
tryUpdate_NoEtag(r, doc, accepted) ==
    LET r1 == [r EXCEPT !.hasRead = TRUE, !.nReads = @ + 1, !.read = doc, !.etag = Absent]
        res == ApplyOperators(r.impl, doc, r.cmds)
    IN  IF res.err # "none" THEN Finish(r1, res.err)
        ELSE IF accepted
        THEN [r1 EXCEPT !.pc = "replace", !.document = res.doc, !.nReplaces = @ + 1]
        ELSE Finish([r1 EXCEPT !.document = res.doc, !.nReplaces = @ + 1, !.fault = TRUE,
                               !.refused = "replace"], "timeout")

\* update.ts 56-80 / BulkDeleteStoredProcedure.ts 120-144, up to the isAccepted test
tryUpdate(r, doc, accepted) ==
    LET r1 == [r EXCEPT !.hasRead = TRUE, !.nReads = @ + 1, !.read = doc, !.etag = doc["_etag"]]
        res == ApplyOperators(r.impl, doc, r.cmds)
    IN  IF res.err # "none" THEN Finish(r1, res.err)
        ELSE IF accepted
        THEN [r1 EXCEPT !.pc = "replace", !.document = res.doc, !.nReplaces = @ + 1]
        ELSE Finish([r1 EXCEPT !.document = res.doc, !.nReplaces = @ + 1, !.fault = TRUE,
                               !.refused = "replace"], "timeout")

\* validation that tests the id alone
Validate_IdOnly(id, hasCmds) == id # NoId

\* update.ts 13-21 / BulkDeleteStoredProcedure.ts 72-80: input validation
Validate(id, hasCmds) == id # NoId /\ hasCmds

\* update.ts 8-21: the body of the procedure up to the first query, for an id of I
\* and a command set of C (or, with H, none)
Invoked(r0, impl, id, hasCmds, cmds, accepted) ==
    LET r == [r0 EXCEPT !.kind = "update", !.impl = impl, !.id = id,
                        !.hasCmds = hasCmds, !.cmds = cmds]
    IN  IF ~Validate(id, hasCmds) THEN Finish(r, "validation")
        ELSE tryQueryAndUpdate(r, accepted)
UpdateInvoke(p, I, C, H, faults) ==
    /\ inv[p].pc = "idle"
    /\ \E impl \in Impls, id \in I, hasCmds \in H, accepted \in Accepts(faults) :
         \E cmds \in (IF hasCmds THEN C ELSE {EmptyCmds}) :
            /\ Validate(id, hasCmds) \/ accepted
            /\ inv' = [inv EXCEPT ![p] = Invoked(inv[p], impl, id, hasCmds, cmds, accepted)]
    /\ UNCHANGED <<store, etagCtr, ext, store0, repo>>

\* the callback of queryDocuments, update.ts 31-44 / BulkDeleteStoredProcedure.ts 91-108
\*   err        the store reports an error
\*   cont       the page is empty and carries a continuation token
\*   accepted   what the next store call (re-query or replace) returns
QueryAnswered(r0, err, cont, accepted) ==
    LET r == [r0 EXCEPT !.lastCont = (cont /\ ~err)]
        docs == Matching(r.id)
    IN  IF err THEN Finish([r EXCEPT !.fault = TRUE], "storeerr")
        ELSE IF ~cont /\ Len(docs) > 0
             THEN tryUpdate(r, store[docs[1]].doc, accepted)
        ELSE IF cont /\ r.impl = "updateProc"
             THEN tryQueryAndUpdate([r EXCEPT !.pages = @ + 1], accepted)
        ELSE Finish(r, "notfound")
UpdateQueryCallback(p, faults) ==
    /\ inv[p].pc = "query"
    /\ \E err \in Errs(faults), cont \in BOOLEAN, accepted \in Accepts(faults) :
         /\ cont => inv[p].pages < MaxPages
         /\ inv' = [inv EXCEPT ![p] = QueryAnswered(inv[p], err, cont, accepted)]
    /\ UNCHANGED <<store, etagCtr, ext, store0, repo>>

\* a callback that answers a version conflict by querying the document again
ReplaceFailed_Retry(r, res) ==
    IF res = "conflict" /\ r.nReplaces < 2
    THEN [r EXCEPT !.pc = "query", !.nQueries = @ + 1]
    ELSE Finish(r, res)

\* update.ts 69-71 / BulkDeleteStoredProcedure.ts 133-135: throw err
ReplaceFailed(r, res) == Finish(r, res)

\* the callback of replaceDocument, update.ts 68-74 / BulkDeleteStoredProcedure.ts 132-138
ReplaceAnswered(r, err) ==
    LET l == Resolve(r.document["_self"])
        found == IF err THEN "storeerr" ELSE ReplaceResult(r.document["_self"], r.etag)
        res == IF found = "ok" /\ IdTaken(l, r.document) THEN "storeerr" ELSE found
    IN  IF res = "ok"
        THEN Finish([r EXCEPT !.hasBody = TRUE, !.body = Stored(l, r.document),
                              !.nWrites = @ + 1, !.wrote = l,
                              !.replaced = store[l].doc], "ok")
        ELSE ReplaceFailed([r EXCEPT !.fault = (@ \/ err)], res)
UpdateReplaceCallback(p, faults) ==
    /\ inv[p].pc = "replace"
    /\ \E err \in Errs(faults) :
         LET r == ReplaceAnswered(inv[p], err)
         IN  /\ inv' = [inv EXCEPT ![p] = r]
             /\ IF r.outcome = "ok"
                THEN /\ store' = [store EXCEPT ![r.wrote] = [present |-> TRUE, doc |-> r.body]]
                     /\ etagCtr' = etagCtr + 1
                ELSE UNCHANGED <<store, etagCtr>>
    /\ UNCHANGED <<ext, store0, repo>>

\* ------------------------------------------------------------------ bulkDelete
\* the end of the script without a call of response.setBody
SetBodyAndStop_NoBody(r) == Finish(r, "ok")

\* response.setBody(responseBody) followed by the end of the script
SetBodyAndStop(r) ==
    Finish([r EXCEPT !.hasBody = TRUE, !.bodyDeleted = r.deleted], "ok")

\* a callback that answers an error with the count so far
BulkFailed_PartialCount(r) == SetBodyAndStop(r)

\* BulkDeleteStoredProcedure.ts 21-23, 45-47: throw err
BulkFailed(r) == Finish(r, "storeerr")

\* a query call that answers a refusal with the error of the update procedure
tryQueryAndDelete_Throw(r, accepted) ==
    IF accepted
    THEN [r EXCEPT !.pc = "bquery", !.nQueries = @ + 1]
    ELSE Finish([r EXCEPT !.nQueries = @ + 1, !.fault = TRUE, !.refused = "query"], "timeout")

\* BulkDeleteStoredProcedure.ts 16-39: the queryDocuments call and the isAccepted test
tryQueryAndDelete(r, accepted) ==
    IF accepted
    THEN [r EXCEPT !.pc = "bquery", !.nQueries = @ + 1]
    ELSE SetBodyAndStop([r EXCEPT !.nQueries = @ + 1, !.fault = TRUE, !.refused = "query"])

\* a delete call that takes the last document of the array first
tryDelete_LastFirst(r, documents, accepted) ==
    LET reversed == [i \in 1..Len(documents) |-> documents[Len(documents) + 1 - i]]
    IN  IF Len(documents) > 0
        THEN IF accepted
             THEN [r EXCEPT !.pc = "bdelete", !.queue = reversed, !.nDeletes = @ + 1]
             ELSE SetBodyAndStop([r EXCEPT !.queue = reversed, !.nDeletes = @ + 1,
                                           !.fault = TRUE, !.refused = "delete"])
        ELSE Finish([r EXCEPT !.queue = documents], "ok")

\* a delete call that, when refused, goes on to the next document of the page
tryDelete_SkipRefused(r, documents, accepted) ==
    IF Len(documents) > 0
    THEN IF accepted
         THEN [r EXCEPT !.pc = "bdelete", !.queue = documents, !.nDeletes = @ + 1]
         ELSE IF Len(documents) > 1
              THEN [r EXCEPT !.pc = "bdelete", !.queue = Tail(documents), !.nDeletes = @ + 2,
                             !.fault = TRUE, !.refused = "delete"]
              ELSE SetBodyAndStop([r EXCEPT !.queue = documents, !.nDeletes = @ + 1,
                                            !.fault = TRUE, !.refused = "delete"])
    ELSE Finish([r EXCEPT !.queue = documents], "ok")

\* BulkDeleteStoredProcedure.ts 41-59: the deleteDocument call for documents[0] and
\* the isAccepted test; with an empty array the function does nothing
tryDelete(r, documents, accepted) ==
    IF Len(documents) > 0
    THEN IF accepted
         THEN [r EXCEPT !.pc = "bdelete", !.queue = documents, !.nDeletes = @ + 1]
         ELSE SetBodyAndStop([r EXCEPT !.queue = documents, !.nDeletes = @ + 1,
                                       !.fault = TRUE, !.refused = "delete"])
    ELSE Finish([r EXCEPT !.queue = documents], "ok")

\* a counter that goes on from the count of the invocation before
responseBody_CarriedOver(p) == IF p = 2 THEN inv[1].deleted ELSE 0

\* BulkDeleteStoredProcedure.ts 9-11: responseBody.deleted of a new invocation
responseBody(p) == 0

\* BulkDeleteStoredProcedure.ts 5-14: the body of the procedure up to the first query
BulkDeleteInvoke(p) ==
    /\ inv[p].pc = "idle"
    /\ \E accepted \in BOOLEAN :
         inv' = [inv EXCEPT ![p] =
                    tryQueryAndDelete([inv[p] EXCEPT !.kind = "bulkDelete",
                                                     !.deleted = responseBody(p)],
                                      accepted)]
    /\ UNCHANGED <<store, etagCtr, ext, store0, repo>>

\* the callback of queryDocuments, BulkDeleteStoredProcedure.ts 20-33
\*   err        the store reports an error
\*   k          the size of the page: 0 .. number of documents (a page may be empty
\*              although documents remain: it then carries a continuation token)
\*   accepted   what the deleteDocument call for the first document returns
BulkDeleteQueryCallback(p) ==
    /\ inv[p].pc = "bquery"
    /\ \E err \in BOOLEAN, k \in 0..MaxDocs, accepted \in BOOLEAN :
         LET r == inv[p]
             n == Len(AllDocs)
             retrievedDocs == SubSeq(AllDocs, 1, k)
         IN  /\ k <= n
             /\ (k = 0 \/ err) => accepted
             /\ inv' = [inv EXCEPT ![p] =
                   IF err THEN BulkFailed([r EXCEPT !.fault = TRUE, !.erred = TRUE])
                   ELSE IF Len(retrievedDocs) > 0
                        THEN tryDelete([r EXCEPT !.pageLen = k, !.page = retrievedDocs],
                                       retrievedDocs, accepted)
                   ELSE SetBodyAndStop([r EXCEPT !.pageLen = k])]
    /\ UNCHANGED <<store, etagCtr, ext, store0, repo>>

\* the callback of deleteDocument, BulkDeleteStoredProcedure.ts 44-52; the store
\* reports an error for a document that is no longer there
BulkDeleteDeleteCallback(p) ==
    /\ inv[p].pc = "bdelete"
    /\ \E err \in BOOLEAN, accepted \in BOOLEAN :
         LET r == inv[p]
             l == r.queue[1]
             rest == Tail(r.queue)
         IN  IF err \/ ~store[l].present
             THEN /\ accepted
                  /\ inv' = [inv EXCEPT ![p] = BulkFailed([r EXCEPT !.fault = (@ \/ err),
                                                              !.erred = TRUE])]
                  /\ UNCHANGED store
             ELSE /\ (rest = <<>>) => accepted
                  /\ store' = [store EXCEPT ![l] = NoSlot]
                  /\ inv' = [inv EXCEPT ![p] =
                        tryDelete([r EXCEPT !.deleted = @ + 1, !.nWrites = @ + 1,
                                            !.order = Append(@, l)],
                                  rest, accepted)]
    /\ UNCHANGED <<etagCtr, ext, store0, repo>>

\* ------------------------------------------------------------------ other clients
\* some invocation has begun and not ended: the only time a write of another
\* client can fall between two steps of a procedure
InFlight == \E p \in Procs : inv[p].pc \notin {"idle", "done"}

\* another client replaces a document (BaseCRUDRepository.update on its own connection)
ExternalReplace ==
    /\ ext = 0
    /\ InFlight
    /\ \E l \in Links :
         /\ store[l].present
         /\ store' = [store EXCEPT ![l] =
               [present |-> TRUE, doc |-> Stored(l, [store[l].doc EXCEPT !["text"] = Scalar("w")])]]
    /\ etagCtr' = etagCtr + 1
    /\ ext' = ext + 1
    /\ UNCHANGED <<inv, store0, repo>>

\* another client removes a document (BaseCRUDRepository.remove)
ExternalRemove ==
    /\ ext = 0
    /\ InFlight
    /\ \E l \in Links :
         /\ store[l].present
         /\ store' = [store EXCEPT ![l] = NoSlot]
    /\ ext' = ext + 1
    /\ UNCHANGED <<inv, etagCtr, store0, repo>>

\* ------------------------------------------------------------------ repository
\* BaseCRUDRepository: operation o of the repository object runs its stored
\* procedure as invocation inv[o].
Kinds == {"create", "findOne", "findAll", "update", "remove", "removeAll"}
\* typeof objOrId: an entity, an id, or anything else
ArgTypes == {"object", "string", "other"}
\* transformAndValidate: the entity is valid, fails its validation (an array of
\* ValidationError), or the transformation throws some other error
Validations == {"valid", "invalid", "throws"}

\* BaseCRUDRepository.ts 282: none of the four references is undefined
AllCached(c) == \A x \in ResourceNames : c[x]

\* an error handler that takes a DbQueryError for an unclassified error
handleRepositoryErrors_NoDbQuery(e) ==
    IF e \in {"TypeError", "ValidationErrors"} THEN "RepositoryError" ELSE "UnexpectedDbError"

\* BaseCRUDRepository.ts 261-275: the error thrown for the error caught
handleRepositoryErrors(e) ==
    IF e = "TypeError" THEN "RepositoryError"
    ELSE IF e = "DbQueryError" THEN "RepositoryError"
    ELSE IF e = "ValidationErrors" THEN "RepositoryError"
    ELSE "UnexpectedDbError"

\* the catch block of an operation of BaseCRUDRepository: the promise rejects
\* with what handleRepositoryErrors throws
RejectAwaited(op, e) ==
    [op EXCEPT !.pc = "rejected", !.caught = e, !.error = handleRepositoryErrors(e)]
\* the catch block of findByKey, UsersRepository.ts 49-52: the handler is called
\* and not awaited, so what it throws rejects a promise nobody holds, and the
\* operation goes on to the throw of line 52
RejectNotAwaited(op, e) ==
    [op EXCEPT !.pc = "rejected", !.caught = e, !.error = "UnexpectedDbError",
               !.unobserved = handleRepositoryErrors(e)]
Reject(op, e) ==
    IF op.kind = "findByKey" THEN RejectNotAwaited(op, e) ELSE RejectAwaited(op, e)
ResolveOp(op) == [op EXCEPT !.pc = "resolved"]
\* return await transformAndValidate(this.classType, retrieved)
Validated(op, v) ==
    IF v = "valid" THEN ResolveOp(op)
    ELSE Reject(op, IF v = "invalid" THEN "ValidationErrors" ELSE "Error")

\* the body of an operation after evaluateInit, up to its store call
BeginCall(r, o) ==
    LET op == r.ops[o]
    IN  [r EXCEPT !.ops[o] =
            IF op.kind \in {"update", "remove"} /\ op.argType = "other"
            THEN Reject(op, "TypeError")
            ELSE IF op.kind \in {"update", "removeAll"}
                 THEN [op EXCEPT !.pc = "exec", !.docs = {l \in Links : store[l].present}]
            ELSE [op EXCEPT !.pc = "call"]]

\* the look-up of DatabaseUtils.getOrCreate... for the reference number step
IssueLookup(r, o, step) ==
    [r EXCEPT !.ops[o].pc = "initQuery", !.ops[o].step = step,
              !.ops[o].nLookups = @ + 1,
              !.lateCall = @ \/ AllCached(r.cached)]

\* BaseCRUDRepository.ts 302-305: the reference obtained is assigned, and the
\* next one looked up; after the last the operation goes on
Advance(r, o) ==
    LET step == r.ops[o].step
        r1 == [r EXCEPT !.cached[Resources[step]] = TRUE]
    IN  IF step < Len(Resources) THEN IssueLookup(r1, o, step + 1) ELSE BeginCall(r1, o)

\* the call of an operation of kind K: evaluateInit (BaseCRUDRepository.ts 281-285)
\* and, with every reference cached, the body up to the store call
RepoCall(o, K) ==
    /\ repo.ops[o].pc = "idle"
    /\ \E kind \in K, argType \in ArgTypes :
         /\ kind \notin {"update", "remove"} => argType = "object"
         /\ LET r == [repo EXCEPT !.ops[o].kind = kind, !.ops[o].argType = argType]
            IN  repo' = IF AllCached(repo.cached) THEN BeginCall(r, o)
                        ELSE IssueLookup(r, o, 1)
    /\ UNCHANGED <<store, etagCtr, inv, ext, store0>>

\* the toArray callback of a look-up, DatabaseUtils.ts 19-38, 51-70, 84-100, 114-130
RepoInitQueryCallback(o) ==
    /\ repo.ops[o].pc = "initQuery"
    /\ \E err \in BOOLEAN :
         LET x == Resources[repo.ops[o].step]
         IN  repo' =
               IF err THEN [repo EXCEPT !.ops[o] = Reject(@, "QueryError")]
               ELSE IF repo.exists[x] THEN Advance(repo, o)
               ELSE [repo EXCEPT !.ops[o].pc = "initCreate",
                                 !.nCreateCalls[x] = @ + 1,
                                 !.lateCall = @ \/ AllCached(repo.cached)]
    /\ UNCHANGED <<store, etagCtr, inv, ext, store0>>

\* the callback of createDatabase / createCollection / createStoredProcedure,
\* DatabaseUtils.ts 27-33, 59-65, 89-95, 119-125; the server refuses an id that
\* exists (409)
RepoInitCreateCallback(o) ==
    /\ repo.ops[o].pc = "initCreate"
    /\ \E err \in BOOLEAN :
         LET x == Resources[repo.ops[o].step]
         IN  /\ repo.exists[x] => ~err
             /\ repo' =
                   IF err \/ repo.exists[x] THEN [repo EXCEPT !.ops[o] = Reject(@, "QueryError")]
                   ELSE Advance([repo EXCEPT !.exists[x] = TRUE, !.nCreated[x] = @ + 1], o)
    /\ UNCHANGED <<store, etagCtr, inv, ext, store0>>

\* the server starts the stored procedure of update (BaseCRUDRepository.ts 187) or
\* removeAll (BaseCRUDRepository.ts 243)
RepoExec(o, C, faults) ==
    /\ repo.ops[o].pc = "exec"
    /\ IF repo.ops[o].kind = "update"
       THEN UpdateInvoke(o, Ids \cup {NoId}, C, BOOLEAN, faults)
       ELSE BulkDeleteInvoke(o)

\* the callback of executeStoredProcedure, BaseCRUDRepository.ts 187-193, 243-249
RepoExecCallback(o) ==
    /\ repo.ops[o].pc = "exec"
    /\ inv[o].pc = "done"
    /\ \E err \in BOOLEAN, v \in Validations :
         LET op == repo.ops[o]
             failed == err \/ inv[o].outcome # "ok"
         IN  /\ inv[o].outcome # "ok" => ~err
             /\ (failed \/ op.kind = "removeAll") => v = "valid"
             /\ repo' = [repo EXCEPT !.ops[o] =
                   IF failed THEN Reject(op, "DbQueryError")
                   ELSE IF op.kind = "update" THEN Validated(op, v)
                   ELSE ResolveOp(op)]
    /\ UNCHANGED <<store, etagCtr, inv, ext, store0>>

\* the callback of createDocument (BaseCRUDRepository.ts 84-90), queryDocuments
\* (117-127, 150-160; UsersRepository.ts 36-46) or deleteDocument (220-226), with
\* the store's part of the call
RepoCallCallback(o) ==
    /\ repo.ops[o].pc = "call"
    /\ \E err \in BOOLEAN, v \in Validations, i \in 1..MaxDocs :
         LET op == repo.ops[o]
             l == LinkNames[i]
             refused == err \/ (op.kind \in {"create"} /\ store[l].present)
                            \/ (op.kind = "remove" /\ ~store[l].present)
             empty == \/ op.kind \in {"findOne", "findByKey"} /\ ~store[l].present
                      \/ op.kind = "findAll" /\ AllDocs = <<>>
         IN  /\ (refused \/ empty \/ op.kind = "remove") => v = "valid"
             /\ op.kind = "findAll" => i = 1
             /\ repo' = [repo EXCEPT !.ops[o] =
                   IF refused THEN Reject(op, "DbQueryError")
                   ELSE IF empty \/ op.kind = "remove" THEN ResolveOp(op)
                   ELSE Validated(op, v)]
             /\ IF ~refused /\ op.kind = "create"
                THEN /\ store' = [store EXCEPT ![l] =
                            [present |-> TRUE,
                             doc |-> NewDoc(i, Arr(<<>>), EtagNames[etagCtr + 1])]]
                     /\ etagCtr' = etagCtr + 1
                ELSE IF ~refused /\ op.kind = "remove"
                THEN store' = [store EXCEPT ![l] = NoSlot] /\ UNCHANGED etagCtr
                ELSE UNCHANGED <<store, etagCtr>>
    /\ UNCHANGED <<inv, ext, store0>>

\* what may exist on the server when the repository object is constructed: a
\* collection only in a database, a stored procedure only in a collection
InitExists ==
    {e \in [ResourceNames -> BOOLEAN] :
        /\ e["collection"] => e["database"]
        /\ (e["updateProcedure"] \/ e["bulkDeleteProcedure"]) => e["collection"]}
InitRepo ==
    /\ store \in InitStores
    /\ store0 = store
    /\ etagCtr = MaxDocs
    /\ inv = [p \in Procs |-> IdleInv]
    /\ ext = 0
    /\ repo \in {[IdleRepo EXCEPT !.exists = e] : e \in InitExists}
    /\ ~repo.exists["collection"] => AllDocs = <<>>

\* ------------------------------------------------------------------ specifications
Invoke == UpdateInvoke(1, Ids \cup {NoId}, Cmds, BOOLEAN, TRUE)
QueryCallback == UpdateQueryCallback(1, TRUE)
ReplaceCallback == UpdateReplaceCallback(1, TRUE)

\* one update invocation, with other clients writing to the collection
Next == Invoke \/ QueryCallback \/ ReplaceCallback \/ ExternalReplace \/ ExternalRemove
Spec == Init /\ [][Next]_vars

\* one bulkDelete invocation, with other clients writing to the collection
BulkInvoke == BulkDeleteInvoke(1)
BulkQueryCallback == BulkDeleteQueryCallback(1)
BulkDeleteCallback == BulkDeleteDeleteCallback(1)
NextBulk ==
    BulkInvoke \/ BulkQueryCallback \/ BulkDeleteCallback \/ ExternalReplace \/ ExternalRemove
SpecBulk == Init /\ [][NextBulk]_vars

\* two update invocations in flight at once, each with a valid id and a command
\* set of one entry on the field tags; no other client, and a store without faults.
\* Invocation 1 is the first to start.
OneEntry(P) == {Group(<<[f |-> "tags", v |-> x]>>) : x \in P}
RaceCmds ==
    {[EmptyCmds EXCEPT !.set = g] : g \in OneEntry(SetVals)}
    \cup {[EmptyCmds EXCEPT !.pop = g] : g \in OneEntry(Deltas)}
    \cup {[EmptyCmds EXCEPT !.push = g] : g \in OneEntry(PushVals)}
    \cup {[EmptyCmds EXCEPT !.unshift = g] : g \in OneEntry(UnshiftVals)}
RaceInvoke ==
    \E p \in Procs :
        /\ p = 2 => inv[1].pc # "idle"
        /\ UpdateInvoke(p, Ids, RaceCmds, {TRUE}, FALSE)
RaceQueryCallback == \E p \in Procs : UpdateQueryCallback(p, FALSE)
RaceReplaceCallback == \E p \in Procs : UpdateReplaceCallback(p, FALSE)
NextRace == RaceInvoke \/ RaceQueryCallback \/ RaceReplaceCallback
SpecRace == Init /\ [][NextRace]_vars

\* the same update invoked twice in succession: invocation 2 starts when
\* invocation 1 has succeeded, runs the same text of the procedure and is given
\* the same id and the same command set; no other client, a store without faults
TwiceFirst == UpdateInvoke(1, Ids, Cmds, {TRUE}, FALSE)
TwiceSecond ==
    /\ inv[1].pc = "done" /\ inv[1].outcome = "ok"
    /\ UpdateInvoke(2, {inv[1].id}, {inv[1].cmds}, {TRUE}, FALSE)
    /\ inv'[2].impl = inv[1].impl
TwiceQueryCallback == \E p \in Procs : UpdateQueryCallback(p, FALSE)
TwiceReplaceCallback == \E p \in Procs : UpdateReplaceCallback(p, FALSE)
NextTwice == TwiceFirst \/ TwiceSecond \/ TwiceQueryCallback \/ TwiceReplaceCallback
SpecTwice == Init /\ [][NextTwice]_vars

\* one operation on a new repository object: initialization, the store call or
\* the stored procedure, and the transformation of the result
RepoOperation == RepoCall(1, Kinds)
RepoLookupCallback == RepoInitQueryCallback(1)
RepoCreateCallback == RepoInitCreateCallback(1)
RepoProcedureStart == RepoExec(1, RaceCmds, TRUE)
RepoProcedureQueryCallback == UpdateQueryCallback(1, TRUE)
RepoProcedureReplaceCallback == UpdateReplaceCallback(1, TRUE)
RepoProcedureCallback == RepoExecCallback(1)
RepoStoreCallback == RepoCallCallback(1)
NextRepo ==
    \/ RepoOperation \/ RepoLookupCallback \/ RepoCreateCallback
    \/ RepoProcedureStart \/ RepoProcedureQueryCallback \/ RepoProcedureReplaceCallback
    \/ BulkQueryCallback \/ BulkDeleteCallback
    \/ RepoProcedureCallback \/ RepoStoreCallback
SpecRepo == InitRepo /\ [][NextRepo]_vars

\* two operations on one new repository object, the second called while the
\* first is under way or after it; each is findAll, remove or removeAll
InitKinds == {"findAll", "remove", "removeAll"}
InitOperation ==
    \E o \in Procs :
        /\ o = 2 => repo.ops[1].pc # "idle"
        /\ RepoCall(o, InitKinds)
InitLookupCallback == \E o \in Procs : RepoInitQueryCallback(o)
InitCreateCallback == \E o \in Procs : RepoInitCreateCallback(o)
InitProcedureStart == \E o \in Procs : RepoExec(o, {EmptyCmds}, FALSE)
InitBulkQueryCallback == \E o \in Procs : BulkDeleteQueryCallback(o)
InitBulkDeleteCallback == \E o \in Procs : BulkDeleteDeleteCallback(o)
InitProcedureCallback == \E o \in Procs : RepoExecCallback(o)
InitStoreCallback == \E o \in Procs : RepoCallCallback(o)
NextInit ==
    \/ InitOperation \/ InitLookupCallback \/ InitCreateCallback
    \/ InitProcedureStart
    \/ InitBulkQueryCallback \/ InitBulkDeleteCallback
    \/ InitProcedureCallback \/ InitStoreCallback
SpecInit == InitRepo /\ [][NextInit]_vars

\* bulkDelete invoked twice in succession on one collection: invocation 2
\* starts when invocation 1 has ended; no other client
BulkTwiceInvoke ==
    \E p \in Procs :
        /\ p = 2 => inv[1].pc = "done"
        /\ BulkDeleteInvoke(p)
BulkTwiceQueryCallback == \E p \in Procs : BulkDeleteQueryCallback(p)
BulkTwiceDeleteCallback == \E p \in Procs : BulkDeleteDeleteCallback(p)
NextBulkTwice == BulkTwiceInvoke \/ BulkTwiceQueryCallback \/ BulkTwiceDeleteCallback
SpecBulkTwice == Init /\ [][NextBulkTwice]_vars

\* one update invocation whose $set names a system field of the document: the
\* link of a document or of none, the version token of a document, an id; no
\* other client, a store without faults
SysEntries ==
    {[f |-> "_self", v |-> Scalar(l)] : l \in Links \cup {"nolink"}}
    \cup {[f |-> "_etag", v |-> Scalar(EtagNames[i])] : i \in 1..MaxDocs}
    \cup {[f |-> "id", v |-> Scalar(i)] : i \in Ids}
SysCmds ==
    {[c EXCEPT !.set = Group(<<e>>)] : e \in SysEntries, c \in {EmptyCmds} \cup RaceCmds}
SysInvoke == UpdateInvoke(1, Ids, SysCmds, {TRUE}, FALSE)
SysQueryCallback == UpdateQueryCallback(1, FALSE)
SysReplaceCallback == UpdateReplaceCallback(1, FALSE)
NextSys == SysInvoke \/ SysQueryCallback \/ SysReplaceCallback
SpecSys == Init /\ [][NextSys]_vars

\* ------------------------------------------------------------------ reference
\* The operators as section 4.1 of the specification words them (steps 6-9),
\* field by field: $set, then $pop by the sign of the delta, then $push, then
\* $unshift of the value given under $unshift.
Targets(c) == GroupFields(c.pop) \cup GroupFields(c.push) \cup GroupFields(c.unshift)
AfterSet(d, c) ==
    [f \in DocFields |-> IF f \in GroupFields(c.set) THEN GroupVal(c.set, f) ELSE d[f]]
SpecValid(d, c) == \A f \in Targets(c) : IsArray(AfterSet(d, c)[f])
SpecField(d, c, f) ==
    LET v0 == AfterSet(d, c)[f].v
        v1 == IF f \in GroupFields(c.pop)
              THEN (IF GroupVal(c.pop, f) < 0 THEN JsShift(v0) ELSE JsPop(v0))
              ELSE v0
        v2 == IF f \in GroupFields(c.push) THEN Append(v1, GroupVal(c.push, f)) ELSE v1
    IN  IF f \in GroupFields(c.unshift) THEN <<GroupVal(c.unshift, f)>> \o v2 ELSE v2
SpecResult(d, c) ==
    [f \in DocFields |->
        IF f \in Targets(c) THEN Arr(SpecField(d, c, f)) ELSE AfterSet(d, c)[f]]
\* the command set with every $pop delta made positive
PopLast(c) ==
    [c EXCEPT !.pop.es = [i \in DOMAIN @ |-> [@[i] EXCEPT !.v = 1]]]

\* the update invocation of Spec
U == inv[1]
\* it ran to its end, found its document, and neither the store nor another
\* client got in its way
Undisturbed(r) == r.kind = "update" /\ r.pc = "done" /\ r.hasRead /\ ~r.fault /\ ext = 0
IdsOf(st) == {st[l].doc["id"] : l \in {x \in Links : st[x].present}}

\* ------------------------------------------------------------------ claims
\* C1: an undisturbed update of an existing document, with a command set whose
\* array operators all name arrays, succeeds, and the document returned and
\* stored is the document read with $set, $pop, $push, $unshift applied in that
\* order to every field named, every other field as it was.
C1_UpdateAppliesCommands ==
    (Undisturbed(U) /\ SpecValid(U.read, U.cmds)) =>
        /\ U.outcome = "ok"
        /\ U.hasBody
        /\ NoEtag(U.body) = NoEtag(SpecResult(U.read, U.cmds))
        /\ store[U.wrote].doc = U.body

\* C2: two update invocations that read the same version of a document and both
\* issue their replace end with exactly one success and one version conflict,
\* and the stored document is the winner's result: the document read with the
\* winner's operators applied.
RacePair(p, q) ==
    /\ p # q
    /\ inv[p].pc = "done" /\ inv[q].pc = "done"
    /\ inv[p].nReplaces = 1 /\ inv[q].nReplaces = 1
    /\ inv[p].hasRead /\ inv[q].hasRead
    /\ inv[p].read = inv[q].read
C2_ExactlyOneWins ==
    \A p, q \in Procs :
        RacePair(p, q) =>
            \E w \in {p, q} :
                LET l == CHOOSE x \in {p, q} : x # w
                    lnk == inv[w].read["_self"].v[1]
                IN  /\ inv[w].outcome = "ok"
                    /\ inv[l].outcome = "conflict"
                    /\ inv[l].nWrites = 0 /\ ~inv[l].hasBody
                    /\ store[lnk].doc = inv[w].body
                    /\ NoEtag(inv[w].body) =
                         NoEtag(ApplyOperators(inv[w].impl, inv[w].read, inv[w].cmds).doc)
C2_Witness ==
    /\ RacePair(1, 2)
    /\ inv[2].outcome = "ok" /\ inv[1].outcome = "conflict"
    /\ inv[1].cmds # inv[2].cmds

\* C3: a bulkDelete invocation that meets no refusal, no store error and no other
\* client ends with the body {deleted: N} and an empty collection, N being the
\* number of documents the collection held.
C3_BulkDeleteDeletesAll ==
    LET r == inv[1]
        N == Cardinality({l \in Links : store0[l].present})
    IN  (r.kind = "bulkDelete" /\ r.pc = "done" /\ ~r.fault /\ ext = 0) =>
            /\ r.hasBody
            /\ r.bodyDeleted = N
            /\ AllDocs = <<>>

\* C4: an update invocation writes nothing before it ends and nothing when it
\* fails; when it succeeds it has issued one replace and made one write, to the
\* document it read, which was still the version it read, and every other
\* document is left as it was.
C4_OneMutationOnSuccessOnly ==
    U.kind = "update" =>
        IF U.pc = "done" /\ U.outcome = "ok"
        THEN /\ U.nWrites = 1 /\ U.nReplaces = 1
             /\ U.hasRead
             /\ Scalar(U.wrote) = U.read["_self"]
             /\ U.replaced = U.read
             /\ ext = 0 => \A l \in Links \ {U.wrote} : store[l] = store0[l]
        ELSE /\ U.nWrites = 0
             /\ ext = 0 => store = store0
C4_Witness ==
    /\ U.pc = "done" /\ U.outcome = "ok" /\ U.nWrites = 1
    /\ store[U.wrote].doc # store0[U.wrote].doc
    /\ ext = 1
C4_WitnessConflict ==
    U.pc = "done" /\ U.outcome = "conflict" /\ U.nWrites = 0

\* C5: an update that has read its document and whose $pop, $push or $unshift
\* names a field that is not an array after $set ends with the operator error,
\* has issued no replace and has written nothing.
BadTarget(d, c) == \E f \in Targets(c) : ~IsArray(AfterSet(d, c)[f])
C5_NonArrayTargetFails ==
    (U.kind = "update" /\ U.pc = "done" /\ U.hasRead /\ BadTarget(U.read, U.cmds)) =>
        /\ U.outcome = "operator"
        /\ U.nReplaces = 0 /\ U.nWrites = 0 /\ ~U.hasBody

\* C6 as claimed: an update for an id that no document has ends with the error
\* 'Document not found', no body and no replace.
C6_AlwaysNotFound ==
    (U.kind = "update" /\ U.pc = "done" /\ Scalar(U.id) \notin IdsOf(store0)) =>
        /\ U.outcome = "notfound"
        /\ ~U.hasBody /\ U.nReplaces = 0
\* C6 as amended: such an update always fails, sets no body and issues no
\* replace; the error is 'Document not found' whenever the arguments pass the
\* validation and the store accepts every query and reports no error.
C6_FailsWithoutBody ==
    (U.kind = "update" /\ U.pc = "done" /\ Scalar(U.id) \notin IdsOf(store0)) =>
        /\ U.outcome \in {"validation", "timeout", "storeerr", "notfound"}
        /\ ~U.hasBody /\ U.nReplaces = 0 /\ U.nWrites = 0 /\ ~U.hasRead
        /\ (Validate(U.id, U.hasCmds) /\ ~U.fault) => U.outcome = "notfound"
C6_Witness ==
    /\ U.kind = "update" /\ U.pc = "done" /\ Scalar(U.id) \notin IdsOf(store0)
    /\ U.outcome = "notfound" /\ U.nQueries = 2
    /\ \E l \in Links : store0[l].present

\* C7: after a successful update every field named in $pop alone (not also in
\* $push or $unshift) holds the array it had after $set without its first
\* element when the delta is negative, without its last element otherwise.
C7_PopRemovesByDelta ==
    (U.kind = "update" /\ U.pc = "done" /\ U.outcome = "ok") =>
        \A f \in GroupFields(U.cmds.pop) \ (GroupFields(U.cmds.push) \cup GroupFields(U.cmds.unshift)) :
            LET before == AfterSet(U.read, U.cmds)[f].v
            IN  U.body[f] = Arr(IF GroupVal(U.cmds.pop, f) < 0 THEN JsShift(before)
                                ELSE JsPop(before))

\* C8: an undisturbed update whose array operators all name arrays succeeds for
\* every command set, and every field named in $unshift then starts with the
\* value given for it under $unshift.
C8_UnshiftPrependsGivenValue ==
    (Undisturbed(U) /\ SpecValid(U.read, U.cmds) /\ U.cmds.unshift.present) =>
        /\ U.outcome = "ok"
        /\ \A f \in GroupFields(U.cmds.unshift) :
              /\ U.body[f].v # <<>>
              /\ Head(U.body[f].v) = GroupVal(U.cmds.unshift, f)

\* C9: an undisturbed update whose $set assigns an array to a field F that was
\* absent or no array, and whose $pop, $push or $unshift names F, succeeds, and
\* F then holds the assigned array with the array operators applied (a $pop at
\* either end).
SetMakesArray(d, c, f) ==
    /\ f \in GroupFields(c.set) /\ f \in Targets(c)
    /\ ~IsArray(d[f]) /\ IsArray(GroupVal(c.set, f))
C9_SetBeforeArrayOperators ==
    (Undisturbed(U) /\ SpecValid(U.read, U.cmds)) =>
        \A f \in Fields :
            SetMakesArray(U.read, U.cmds, f) =>
                /\ U.outcome = "ok"
                /\ U.body[f] \in {SpecResult(U.read, U.cmds)[f],
                                  SpecResult(U.read, PopLast(U.cmds))[f]}

\* C10: an update with an empty id or without a command set ends with the
\* validation error, having issued no query and no replace and written nothing.
C10_ValidationBeforeIO ==
    (U.kind = "update" /\ U.pc = "done" /\ (U.id = NoId \/ ~U.hasCmds)) =>
        /\ U.outcome = "validation"
        /\ U.nQueries = 0 /\ U.nReplaces = 0 /\ U.nWrites = 0
        /\ ~U.hasBody
        /\ store = store0
C10_Witness ==
    /\ U.kind = "update" /\ U.pc = "done" /\ U.outcome = "validation"
    /\ U.id # NoId /\ ~U.hasCmds
    /\ Scalar(U.id) \in IdsOf(store0)

\* the bulkDelete invocation of SpecBulk
B == inv[1]
NumDocs(st) == Cardinality({l \in Links : st[l].present})

\* C11: a bulkDelete invocation whose query returned zero documents has ended
\* with the response body {deleted: number of deletes completed so far}; on a
\* collection that was empty it has issued one query and no delete, and the
\* body is {deleted: 0}.
C11_EmptyPageReturnsCount ==
    (B.kind = "bulkDelete" /\ B.pageLen = 0) =>
        /\ B.pc = "done" /\ B.outcome = "ok"
        /\ B.hasBody /\ B.bodyDeleted = B.nWrites
        /\ (NumDocs(store0) = 0) =>
              (B.bodyDeleted = 0 /\ B.nDeletes = 0 /\ B.nQueries = 1)
C11_Witness ==
    /\ B.kind = "bulkDelete" /\ B.pageLen = 0 /\ B.pc = "done"
    /\ NumDocs(store0) = 0 /\ B.hasBody /\ B.bodyDeleted = 0

\* both invocations of SpecTwice have ended, each having read the document
TwiceDone ==
    /\ inv[1].pc = "done" /\ inv[2].pc = "done"
    /\ inv[1].outcome = "ok" /\ inv[2].hasRead
OnlySet(c) == c.set.present /\ ~c.pop.present /\ ~c.push.present /\ ~c.unshift.present
OnlyPush(c) == c.push.present /\ ~c.set.present /\ ~c.pop.present /\ ~c.unshift.present

\* C12: when an update whose command set holds $set alone has succeeded and is
\* invoked again with the same id and command set, the second invocation
\* succeeds and returns and stores the field values the first one returned.
C12_SetIdempotent ==
    (TwiceDone /\ OnlySet(inv[1].cmds)) =>
        /\ inv[2].outcome = "ok"
        /\ NoEtag(inv[2].body) = NoEtag(inv[1].body)
        /\ store[inv[2].wrote].doc = inv[2].body
        /\ \A f \in GroupFields(inv[1].cmds.set) :
              inv[2].body[f] = GroupVal(inv[1].cmds.set, f)
C12_Witness ==
    /\ TwiceDone /\ OnlySet(inv[1].cmds) /\ inv[2].outcome = "ok"
    /\ NoEtag(inv[1].body) # NoEtag(inv[1].read)
    /\ IsArray(inv[1].read["tags"]) /\ IsArray(inv[1].body["tags"])
    /\ "tags" \in GroupFields(inv[1].cmds.set)

\* C13: when an update whose command set holds $push alone has succeeded and is
\* invoked again with the same id and command set, the second invocation
\* succeeds and every field named holds the array the first invocation read
\* followed by two copies of the value pushed.
C13_PushTwiceAppendsTwice ==
    (TwiceDone /\ OnlyPush(inv[1].cmds)) =>
        /\ inv[2].outcome = "ok"
        /\ \A f \in GroupFields(inv[1].cmds.push) :
              LET x == GroupVal(inv[1].cmds.push, f)
              IN  /\ inv[2].body[f] = Arr(inv[1].read[f].v \o <<x, x>>)
                  /\ store[inv[2].wrote].doc[f] = inv[2].body[f]
                  /\ inv[2].body[f] # inv[1].body[f]
C13_Witness ==
    /\ TwiceDone /\ OnlyPush(inv[1].cmds) /\ inv[2].outcome = "ok"
    /\ inv[2].body["tags"] = Arr(<<"a", "b", "c", "c">>)

\* C14: on one repository object neither stored procedure is created in the
\* collection more than once, and no look-up or create of the initialization is
\* issued while all four references are cached.
StoredProcedures == {"updateProcedure", "bulkDeleteProcedure"}
C14_ProvisionedOnce ==
    /\ \A x \in StoredProcedures : repo.nCreated[x] <= 1
    /\ ~repo.lateCall
\* both operations issue the create of the same stored procedure; the second
\* is refused by the server and the operation fails
C14_DuplicateCreate ==
    \E x \in StoredProcedures :
        /\ repo.nCreateCalls[x] = 2 /\ repo.nCreated[x] = 1
        /\ \E o \in Procs : repo.ops[o].pc = "rejected" /\ repo.ops[o].caught = "QueryError"
                              /\ repo.ops[o].step = (CHOOSE i \in DOMAIN Resources : Resources[i] = x)

\* the operation of SpecRepo
R == repo.ops[1]
Settled(op) == op.pc \in {"resolved", "rejected"}

\* C15: when removeAll has resolved, no document that was in the collection
\* when its stored procedure was called is still there.
C15_RemoveAllDeletesAll ==
    (R.kind = "removeAll" /\ R.pc = "resolved") =>
        \A l \in R.docs : ~store[l].present

\* what an operation rejects with, by what went wrong
ErrorTypes == {"RepositoryError", "UnexpectedDbError"}
ProcedureFailed == R.kind \in {"update", "removeAll"} /\ inv[1].pc = "done" /\ inv[1].outcome # "ok"
InitFailed == R.pc = "rejected" /\ ~AllCached(repo.cached)

\* C16 as claimed: a settled operation has resolved, or rejected with a
\* RepositoryError or an UnexpectedDbError: a RepositoryError when the store
\* call or the stored procedure failed or the entity failed its validation, an
\* UnexpectedDbError for anything else.
C16_OnlyStoreAndValidationAreRepositoryErrors ==
    (R.pc = "rejected") =>
        /\ R.error \in ErrorTypes
        /\ R.error = "RepositoryError" <=> R.caught \in {"DbQueryError", "ValidationErrors"}
\* C16 as amended: as above, and an argument that is neither an entity nor an
\* id (a TypeError) is a RepositoryError too.
C16_ErrorsClassified ==
    /\ ~Settled(R) => (R.error = "none" /\ R.caught = "none")
    /\ R.pc = "resolved" => (R.error = "none" /\ R.caught = "none" /\ ~ProcedureFailed)
    /\ R.pc = "rejected" =>
          /\ R.error \in ErrorTypes
          /\ R.error = "RepositoryError" <=>
                R.caught \in {"DbQueryError", "ValidationErrors", "TypeError"}
          /\ InitFailed => R.error = "UnexpectedDbError"
          /\ R.caught = "TypeError" <=>
                (AllCached(repo.cached) /\ R.kind \in {"update", "remove"} /\ R.argType = "other")
    /\ (Settled(R) /\ ProcedureFailed) =>
          (R.pc = "rejected" /\ R.error = "RepositoryError" /\ R.caught = "DbQueryError")
C16_Witness ==
    /\ R.kind = "update" /\ R.pc = "rejected" /\ R.error = "RepositoryError"
    /\ inv[1].outcome = "operator"
    /\ repo.nCreated["updateProcedure"] = 1

\* C17: a bulkDelete invocation has ended only after a query that returned zero
\* documents, after a call that was not accepted, or with an error; the end of
\* a page is followed by the next query.
C17_RequeriesAfterPage ==
    (B.kind = "bulkDelete" /\ B.pc = "done") =>
        (B.pageLen = 0 \/ B.refused # "" \/ B.outcome = "storeerr")

C20_RefusalTimesOut ==
    (U.kind = "update" /\ U.refused # "") =>
        /\ U.pc = "done" /\ U.outcome = "timeout"
        /\ ~U.hasBody /\ U.nWrites = 0
        /\ U.refused = "replace" => (U.hasRead /\ U.nReplaces = 1)
        /\ U.refused = "query" => (~U.hasRead /\ U.nReplaces = 0)
        /\ ext = 0 => store = store0
C20_Witness ==
    /\ U.kind = "update" /\ U.refused = "replace" /\ U.pc = "done"
    /\ U.document # U.read /\ ext = 0
C20_WitnessQuery ==
    /\ U.kind = "update" /\ U.refused = "query" /\ U.pc = "done"
    /\ U.nQueries = 2 /\ Scalar(U.id) \in IdsOf(store)

\* C21: an update invocation reports 'Document not found' only after a page
\* with zero rows and no continuation cursor; a page with zero rows and a
\* cursor is followed by another query.
C21_ContinuationFollowed ==
    (U.kind = "update" /\ U.pc = "done" /\ U.outcome = "notfound") => ~U.lastCont

\* C22: in a bulkDelete invocation the documents deleted so far are, in order,
\* the first documents of the page the query returned, and the rest of the page
\* is the queue; at most one delete has been issued beyond those completed, and
\* while a query is outstanding no document is queued.
IsPrefix(s, t) == Len(s) <= Len(t) /\ s = SubSeq(t, 1, Len(s))
C22_DeletesOneAtATimeInOrder ==
    B.kind = "bulkDelete" =>
        /\ IsPrefix(B.order, B.page)
        /\ Len(B.order) = B.nWrites
        /\ B.nDeletes \in {B.nWrites, B.nWrites + 1}
        /\ B.pc = "bdelete" =>
              (B.nDeletes = B.nWrites + 1 /\ B.order \o B.queue = B.page /\ B.queue # <<>>)
        /\ B.pc = "bquery" => (B.queue = <<>> /\ B.nDeletes = 0)
C22_Witness ==
    /\ B.kind = "bulkDelete" /\ B.pc = "done"
    /\ Len(B.page) = MaxDocs /\ B.order = B.page

\* C23: an update invocation reads at most one document and issues at most one
\* replace; one that met a version conflict or another error of the replace or
\* of a query has ended with that error, without a body and without a write,
\* and its queries are the first one and one for every cursor followed.
C23_NoRetry ==
    U.kind = "update" =>
        /\ U.nReads <= 1 /\ U.nReplaces <= 1
        /\ U.nReplaces <= U.nReads
        /\ U.nQueries <= 1 + U.pages
        /\ (U.pc = "done" /\ U.outcome \in {"conflict", "storeerr"}) =>
              (~U.hasBody /\ U.nWrites = 0)
        /\ (U.pc # "done") => U.outcome = "none"
C23_Witness ==
    /\ U.kind = "update" /\ U.pc = "done" /\ U.outcome = "conflict"
    /\ U.nReads = 1 /\ U.nReplaces = 1 /\ U.nQueries = 1

\* C24: a bulkDelete invocation to which a query or a delete reported an error
\* has ended as a failure: no body is set, the failed call is the last one it
\* issued, and the documents whose delete had completed are not in the
\* collection.
C24_ErrorAborts ==
    (B.kind = "bulkDelete" /\ B.erred) =>
        /\ B.pc = "done" /\ B.outcome = "storeerr" /\ ~B.hasBody
        /\ B.refused = ""
        /\ B.nDeletes = (IF B.pageLen = -1 THEN 0 ELSE B.nWrites + 1)
        /\ B.nQueries = 1
        /\ \A i \in DOMAIN B.order : ~store[B.order[i]].present
C24_Witness ==
    /\ B.kind = "bulkDelete" /\ B.erred /\ B.pc = "done"
    /\ B.nWrites = 1 /\ B.nDeletes = 2 /\ ext = 0
    /\ ~store[B.order[1]].present /\ store[B.queue[1]].present

\* C25: a bulkDelete invocation that has ended has set the response body or
\* raised an error; it has not ended with documents deleted and no body.
C25_EndsWithBodyOrError ==
    (B.kind = "bulkDelete" /\ B.pc = "done") =>
        (B.hasBody \/ B.outcome = "storeerr")

\* C26: in every bulkDelete invocation, the first as well as one that follows
\* another, the counter is the number of deletes of this invocation that have
\* completed: the documents counted are distinct, they were in the collection
\* when the invocation started and are not there any more, a delete that was
\* refused or failed is not counted, and the body carries the counter.
NoDuplicates(s) == \A i, j \in DOMAIN s : i # j => s[i] # s[j]
C26_CounterIsCompletedDeletes ==
    \A p \in Procs :
        inv[p].kind = "bulkDelete" =>
            /\ inv[p].deleted = inv[p].nWrites
            /\ inv[p].deleted = Len(inv[p].order)
            /\ NoDuplicates(inv[p].order)
            /\ \A i \in DOMAIN inv[p].order :
                  store0[inv[p].order[i]].present /\ ~store[inv[p].order[i]].present
            /\ \A q \in Procs \ {p} : \A i \in DOMAIN inv[p].order, j \in DOMAIN inv[q].order :
                  inv[p].order[i] # inv[q].order[j]
            /\ inv[p].deleted <= inv[p].nDeletes
            /\ (inv[p].refused = "delete" \/ inv[p].erred) => inv[p].deleted < inv[p].nDeletes \/ inv[p].nDeletes = 0
            /\ inv[p].hasBody => inv[p].bodyDeleted = inv[p].deleted
C26_Witness ==
    /\ inv[1].kind = "bulkDelete" /\ inv[1].pc = "done" /\ inv[1].deleted = 1
    /\ inv[2].kind = "bulkDelete" /\ inv[2].pc = "done" /\ inv[2].deleted = 1
    /\ inv[1].order # inv[2].order /\ AllDocs = <<>>

\* C27: the replace of an update invocation is issued for the _self link and
\* with the _etag the document had when it was read, whatever $set names, and
\* a write of the invocation is a write to the document read, every other
\* document being left as it was.
C27_ReplaceTargetsDocumentRead ==
    (U.kind = "update" /\ U.nReplaces = 1) =>
        /\ U.document["_self"] = U.read["_self"]
        /\ U.etag = U.read["_etag"]
        /\ U.nWrites = 1 =>
              /\ Scalar(U.wrote) = U.read["_self"]
              /\ \A l \in Links \ {U.wrote} : store[l] = store0[l]
\* the safety part alone: no document but the one read is overwritten
C27_OnlyDocumentReadWritten ==
    U.kind = "update" =>
        /\ U.nReplaces = 1 => U.etag = U.read["_etag"]
        /\ U.nWrites = 0 => store = store0
        /\ U.nWrites = 1 =>
              /\ Scalar(U.wrote) = U.read["_self"]
              /\ \A l \in Links \ {U.wrote} : store[l] = store0[l]

\* ------------------------------------------------ the two update texts, side by side
\* inv[1] runs updateFunc and inv[2] runs updateProc.serverScript with the same
\* arguments, each against its own copy of the same collection, and every
\* store call of the one gets the answer the same call of the other gets.
\* The copies stay in `store`; what an invocation wrote is its wrote and body.
TwinInvoke ==
    /\ inv[1].pc = "idle" /\ inv[2].pc = "idle"
    /\ \E id \in Ids \cup {NoId}, hasCmds \in BOOLEAN, accepted \in BOOLEAN :
         \E cmds \in (IF hasCmds THEN Cmds ELSE {EmptyCmds}) :
            /\ Validate(id, hasCmds) \/ accepted
            /\ inv' = [inv EXCEPT
                 ![1] = Invoked(inv[1], "updateFunc", id, hasCmds, cmds, accepted),
                 ![2] = Invoked(inv[2], "updateProc", id, hasCmds, cmds, accepted)]
    /\ UNCHANGED <<store, etagCtr, ext, store0, repo>>
TwinQueryCallback ==
    /\ \E p \in Procs : inv[p].pc = "query"
    /\ \E err \in BOOLEAN, cont \in BOOLEAN, accepted \in BOOLEAN :
         /\ cont => \A p \in Procs : inv[p].pages < MaxPages
         /\ inv' = [p \in Procs |->
                      IF inv[p].pc = "query"
                      THEN QueryAnswered(inv[p], err, cont, accepted) ELSE inv[p]]
    /\ UNCHANGED <<store, etagCtr, ext, store0, repo>>
TwinReplaceCallback ==
    /\ \E p \in Procs : inv[p].pc = "replace"
    /\ \A p \in Procs : inv[p].pc # "query"
    /\ \E err \in BOOLEAN :
         inv' = [p \in Procs |->
                   IF inv[p].pc = "replace" THEN ReplaceAnswered(inv[p], err) ELSE inv[p]]
    /\ UNCHANGED <<store, etagCtr, ext, store0, repo>>
NextTwin == TwinInvoke \/ TwinQueryCallback \/ TwinReplaceCallback
SpecTwin == Init /\ [][NextTwin]_vars

\* what an invocation leaves behind: how it ended, its response body and the
\* collection after its write
StoreAfter(r) ==
    IF r.outcome = "ok" THEN [store EXCEPT ![r.wrote] = [present |-> TRUE, doc |-> r.body]]
    ELSE store
Effect(r) ==
    [outcome |-> r.outcome, hasBody |-> r.hasBody, body |-> r.body,
     nWrites |-> r.nWrites, after |-> StoreAfter(r)]

\* C28: updateFunc and updateProc.serverScript are the same procedure: given
\* the same id, the same command set and the same store answers, both end the
\* same way, with the same response body and the same collection.
C28_TextsEquivalent ==
    (inv[1].pc = "done" /\ inv[2].pc = "done") => Effect(inv[1]) = Effect(inv[2])

\* ------------------------------------------------ UsersRepository.findByKey
\* one call of findByKey on a new repository object
UsersFindByKey == RepoCall(1, {"findByKey"})
UsersLookupCallback == RepoInitQueryCallback(1)
UsersCreateCallback == RepoInitCreateCallback(1)
UsersQueryCallback == RepoCallCallback(1)
NextUsers ==
    UsersFindByKey \/ UsersLookupCallback \/ UsersCreateCallback \/ UsersQueryCallback
SpecUsers == InitRepo /\ [][NextUsers]_vars

\* C29: findByKey rejects as the operations of BaseCRUDRepository do: with the
\* error handleRepositoryErrors throws for the error caught (a RepositoryError
\* for a DbQueryError or a failed validation, an UnexpectedDbError otherwise),
\* and that error reaches the caller: no rejection is left unobserved.
C29_FindByKeyClassifies ==
    (R.kind = "findByKey" /\ R.pc = "rejected") =>
        /\ R.error = handleRepositoryErrors(R.caught)
        /\ R.unobserved = "none"

\* ------------------------------------------------ documents with an empty array
\* one update invocation on a collection whose documents hold an empty tags array
InitEmptyArrays ==
    /\ store \in {MkStore({LinkNames[i] : i \in 1..n}, Arr(<<>>)) : n \in 0..MaxDocs}
    /\ store0 = store
    /\ etagCtr = MaxDocs
    /\ inv = [p \in Procs |-> IdleInv]
    /\ ext = 0
    /\ repo = IdleRepo
EmptyInvoke == UpdateInvoke(1, Ids, Cmds, {TRUE}, TRUE)
EmptyQueryCallback == UpdateQueryCallback(1, TRUE)
EmptyReplaceCallback == UpdateReplaceCallback(1, TRUE)
NextEmpty == EmptyInvoke \/ EmptyQueryCallback \/ EmptyReplaceCallback
SpecEmpty == InitEmptyArrays /\ [][NextEmpty]_vars

\* the $pop of the invocation names empty arrays only (as they are after $set),
\* and no $push or $unshift follows it
PopsEmptyArrays(r) ==
    /\ r.kind = "update" /\ r.hasRead
    /\ r.cmds.pop.present /\ ~r.cmds.push.present /\ ~r.cmds.unshift.present
    /\ \A f \in GroupFields(r.cmds.pop) : AfterSet(r.read, r.cmds)[f] = Arr(<<>>)

\* C30: a $pop of an empty array is no error, whatever the delta: the operators
\* do not throw, the field is still an empty array, and the replace is issued
\* (once); when the store accepts it, the document stored has the field empty.
C30_PopOfEmptyArraySucceeds ==
    PopsEmptyArrays(U) =>
        /\ U.outcome \notin {"operator", "notfound", "validation"}
        /\ U.nReplaces = 1
        /\ \A f \in GroupFields(U.cmds.pop) : U.document[f] = Arr(<<>>)
        /\ (U.pc = "done" /\ U.outcome = "ok") =>
              \A f \in GroupFields(U.cmds.pop) :
                  U.body[f] = Arr(<<>>) /\ store[U.wrote].doc[f] = Arr(<<>>)
C30_Witness ==
    /\ PopsEmptyArrays(U) /\ U.pc = "done" /\ U.outcome = "ok"
    /\ U.impl = "updateProc" /\ GroupVal(U.cmds.pop, "tags") = -1
    /\ U.body["tags"] = Arr(<<>>) /\ U.nWrites = 1
C30_WitnessLast ==
    /\ PopsEmptyArrays(U) /\ U.pc = "done" /\ U.outcome = "ok"
    /\ U.impl = "updateFunc" /\ GroupVal(U.cmds.pop, "tags") = 1
    /\ U.body["tags"] = Arr(<<>>) /\ U.nWrites = 1

====
